---- MODULE Spec2Model ----
(***************************************************************************)
(* A model of the piwardrive native helpers:                               *)
(*   src/src/piwardrive/ckml.c   parse_coords                              *)
(*   src/cgeom.c                 haversine_distance, polygon_area,         *)
(*                               point_in_polygon                          *)
(* Every function is stateless; each specification below draws the         *)
(* arguments of one call in its initial state and then runs that call.     *)
(***************************************************************************)
EXTENDS Integers, Sequences, FiniteSets, TLC

VARIABLES
    text,   \* parse_coords: the argument buffer (s#), a sequence of characters
    p,      \* parse_coords: the read position, 1-based; end is Len(text) + 1
    lon,    \* parse_coords: local double lon
    lat,    \* parse_coords: local double lat
    list,   \* parse_coords: the PyList being built, a sequence of <<lat, lon>>
    start,  \* history: the value of p when the loop test of line 17 last passed
    hArgs,  \* haversine_distance: <<lat1, lon1, lat2, lon2>>, in whole degrees
    hRet,   \* haversine_distance: the returned double, in metres
    ring,   \* polygon_area: the sequence argument, one tuple per item
    aRet,   \* polygon_area: the result of the call
    pt,     \* point_in_polygon: the test point <<lat, lon>>
    poly,   \* point_in_polygon: the sequence argument, one tuple per item
    i,      \* point_in_polygon: the loop index, 0-based as in the code
    inside, \* point_in_polygon: local int inside, as a BOOLEAN
    cross,  \* point_in_polygon: the division of lines 101-102 as last evaluated
    pRet,   \* point_in_polygon: the result of the call
    pc      \* position of the running call

parseVars == <<text, p, lon, lat, list, start>>
geomVars == <<hArgs, hRet, ring, aRet, pt, poly, i, inside, cross, pRet>>
vars == <<text, p, lon, lat, list, start,
          hArgs, hRet, ring, aRet, pt, poly, i, inside, cross, pRet, pc>>

(***************************************************************************)
(* Bounds of the model.                                                    *)
(***************************************************************************)
MaxLen == 5     \* longest argument string of SpecParse
MaxTok == 2     \* most tokens of a well-formed argument string of SpecWF

(***************************************************************************)
(* ckml.c: characters.  A character is a one-character string; NUL is the  *)
(* terminator CPython keeps at text[len].                                  *)
(***************************************************************************)
NUL == "NUL"

Alphabet == {" ", ",", "1", "2", ".", "-", "z"}

\* isspace() of the C locale: space, \t, \n, \v, \f, \r (\v has no TLA+ escape).
IsSpace(c) == c \in {" ", "\t", "\n", "\f", "\r"}

IsDigit(c) == c \in {"0", "1", "2", "3", "4", "5", "6", "7", "8", "9"}

DigitVal(c) ==
    CASE c = "0" -> 0 [] c = "1" -> 1 [] c = "2" -> 2 [] c = "3" -> 3
      [] c = "4" -> 4 [] c = "5" -> 5 [] c = "6" -> 6 [] c = "7" -> 7
      [] c = "8" -> 8 [] c = "9" -> 9

\* *p for a pointer into the buffer: text[len] is the NUL terminator.
CharAt(t, at) == IF at >= 1 /\ at <= Len(t) THEN t[at] ELSE NUL

(***************************************************************************)
(* A double that came from a decimal literal is kept exactly, as the       *)
(* signed integer m of all its digits and the number d of digits after the *)
(* point: the value is m / 10^d, with trailing zeros of the fraction       *)
(* removed so that equal values have equal representations.                *)
(***************************************************************************)
RECURSIVE Norm(_, _)
Norm(m, d) ==
    IF m = 0 THEN [m |-> 0, d |-> 0]
    ELSE IF d > 0 /\ m % 10 = 0 THEN Norm(m \div 10, d - 1)
    ELSE [m |-> m, d |-> d]

Zero == Norm(0, 0)

\* First position at or after at that holds no whitespace (stops at NUL).
RECURSIVE SkipSpace(_, _)
SkipSpace(t, at) ==
    IF IsSpace(CharAt(t, at)) THEN SkipSpace(t, at + 1) ELSE at

\* First position at or after at that holds no decimal digit.
RECURSIVE DigitsEnd(_, _)
DigitsEnd(t, at) ==
    IF IsDigit(CharAt(t, at)) THEN DigitsEnd(t, at + 1) ELSE at

\* The number written by the digits t[at .. j-1], continuing from acc.
RECURSIVE DigitsValue(_, _, _, _)
DigitsValue(t, at, j, acc) ==
    IF at >= j THEN acc
    ELSE DigitsValue(t, at + 1, j, 10 * acc + DigitVal(t[at]))

(***************************************************************************)
(* strtod(nptr, &q) on decimal literals: skip leading whitespace, an       *)
(* optional sign, digits, an optional point and digits; at least one digit *)
(* is needed.  With no conversion the value is 0.0 and q is nptr itself.   *)
(* Exponents, hexadecimal literals, "inf" and "nan" need characters that   *)
(* are not in Alphabet.                                                    *)
(***************************************************************************)
Strtod(t, at) ==
    LET j      == SkipSpace(t, at)
        neg    == CharAt(t, j) = "-"
        k      == IF CharAt(t, j) \in {"-", "+"} THEN j + 1 ELSE j
        ie     == DigitsEnd(t, k)
        fe     == IF CharAt(t, ie) = "." THEN DigitsEnd(t, ie + 1) ELSE ie
        nfrac  == IF fe > ie THEN fe - ie - 1 ELSE 0
        ok     == ie > k \/ nfrac > 0
        ipart  == DigitsValue(t, k, ie, 0)
        absm   == IF nfrac > 0 THEN DigitsValue(t, ie + 1, fe, ipart) ELSE ipart
    IN  IF ok
        THEN [val |-> Norm(IF neg THEN -absm ELSE absm, nfrac), q |-> fe]
        ELSE [val |-> Zero, q |-> at]

\* Lines 36-38 left out: the rest of the token is not skipped.
SkipToSpace_stuck(t, at) == at

\* Lines 36-38: advance to the next whitespace character or to end.
RECURSIVE SkipToSpace(_, _)
SkipToSpace(t, at) ==
    IF at <= Len(t) /\ ~IsSpace(t[at]) THEN SkipToSpace(t, at + 1) ELSE at

\* Lines 18-20: advance over whitespace, never past end.
RECURSIVE SkipWhite(_, _)
SkipWhite(t, at) ==
    IF at <= Len(t) /\ IsSpace(t[at]) THEN SkipWhite(t, at + 1) ELSE at

(***************************************************************************)
(* ckml.c: parse_coords, one action per statement group of the loop body.  *)
(***************************************************************************)
\* Lines 17-21: the loop test, the whitespace skip and the break.
ScanToken ==
    /\ pc = "while"
    /\ p <= Len(text)
    /\ start' = p
    /\ p' = SkipWhite(text, p)
    /\ pc' = IF p' > Len(text) THEN "done" ELSE "lon"
    /\ UNCHANGED <<text, lon, lat, list>>

\* Line 17 false: the loop ends and line 41 returns the list.
LoopExit ==
    /\ pc = "while"
    /\ p > Len(text)
    /\ pc' = "done"
    /\ UNCHANGED <<text, p, lon, lat, list, start>>

\* Lines 23-26: lon = strtod(p, &q); p = q; step over one comma.
ParseLon ==
    /\ pc = "lon"
    /\ LET r == Strtod(text, p)
       IN  /\ lon' = r.val
           /\ p' = IF r.q <= Len(text) /\ text[r.q] = "," THEN r.q + 1 ELSE r.q
    /\ pc' = "lat"
    /\ UNCHANGED <<text, lat, list, start>>

\* Lines 27-28: lat = strtod(p, &q); p = q.
ParseLat ==
    /\ pc = "lat"
    /\ LET r == Strtod(text, p)
       IN  /\ lat' = r.val
           /\ p' = r.q
    /\ pc' = "alt"
    /\ UNCHANGED <<text, lon, list, start>>

\* Lines 29-32: after a comma, parse the altitude and drop its value.
SkipAlt ==
    /\ pc = "alt"
    /\ p' = IF p <= Len(text) /\ text[p] = ","
            THEN Strtod(text, p + 1).q
            ELSE p
    /\ pc' = "append"
    /\ UNCHANGED <<text, lon, lat, list, start>>

\* Lines 33-35 with the tuple built in input order, (lon, lat).
AppendCoord_unswapped ==
    /\ pc = "append"
    /\ list' = Append(list, <<lon, lat>>)
    /\ pc' = "skip"
    /\ UNCHANGED <<text, p, lon, lat, start>>

\* Lines 33-35: append the tuple (lat, lon).
AppendCoord ==
    /\ pc = "append"
    /\ list' = Append(list, <<lat, lon>>)
    /\ pc' = "skip"
    /\ UNCHANGED <<text, p, lon, lat, start>>

\* Lines 36-38: skip what is left of the token.
SkipRest ==
    /\ pc = "skip"
    /\ p' = SkipToSpace(text, p)
    /\ pc' = "while"
    /\ UNCHANGED <<text, lon, lat, list, start>>

ParseNext ==
    \/ ScanToken /\ UNCHANGED geomVars
    \/ LoopExit /\ UNCHANGED geomVars
    \/ ParseLon /\ UNCHANGED geomVars
    \/ ParseLat /\ UNCHANGED geomVars
    \/ SkipAlt /\ UNCHANGED geomVars
    \/ AppendCoord /\ UNCHANGED geomVars
    \/ SkipRest /\ UNCHANGED geomVars

(***************************************************************************)
(* cgeom.c: a sequence item.  PyArg_ParseTuple(item, "dd", ...) succeeds   *)
(* on a tuple of exactly two numbers; an item is kept as the tuple of its  *)
(* fields, so a wrong field count is visible.                              *)
(***************************************************************************)
ParsesAsPair(item) == Len(item) = 2

(***************************************************************************)
(* cgeom.c: the C double of haversine_distance and polygon_area.  An       *)
(* IEEE-754 binary64 number is kept exactly: a sign s, a significand m of  *)
(* 53 bits and an exponent e, for the value s * m * 2^e.  The significand  *)
(* is a natural number, and a natural number of any size is a sequence of  *)
(* limbs of 14 bits, least significant first.  Every operation rounds to   *)
(* nearest, ties to even.  Zero has one sign (-0.0 == 0.0); overflow and   *)
(* subnormal numbers are out of reach of the arguments used.               *)
(***************************************************************************)
LimbBits == 14

Base == 16384

\* DBL_MANT_DIG
MantBits == 53

Pow2(k) == 2 ^ k

\* A natural number without its leading zero limbs.
RECURSIVE NTrim(_)
NTrim(a) ==
    IF a = <<>> THEN a
    ELSE IF a[Len(a)] = 0 THEN NTrim(SubSeq(a, 1, Len(a) - 1)) ELSE a

RECURSIVE NOfInt(_)
NOfInt(n) == IF n = 0 THEN <<>> ELSE <<n % Base>> \o NOfInt(n \div Base)

\* a + b + c for a carry c.
RECURSIVE NAddC(_, _, _)
NAddC(a, b, c) ==
    IF a = <<>> /\ b = <<>> THEN (IF c = 0 THEN <<>> ELSE <<c>>)
    ELSE LET x == IF a = <<>> THEN 0 ELSE Head(a)
             y == IF b = <<>> THEN 0 ELSE Head(b)
             s == x + y + c
         IN  <<s % Base>> \o NAddC(IF a = <<>> THEN a ELSE Tail(a),
                                   IF b = <<>> THEN b ELSE Tail(b), s \div Base)

NAdd(a, b) == NAddC(a, b, 0)

\* a - b - c for a borrow c, where a >= b + c.
RECURSIVE NSubB(_, _, _)
NSubB(a, b, c) ==
    IF a = <<>> THEN <<>>
    ELSE LET y == IF b = <<>> THEN 0 ELSE Head(b)
             d == Head(a) - y - c
         IN  <<(d + Base) % Base>>
             \o NSubB(Tail(a), IF b = <<>> THEN b ELSE Tail(b),
                      IF d < 0 THEN 1 ELSE 0)

NSub(a, b) == NTrim(NSubB(a, b, 0))

RECURSIVE NLessAt(_, _, _)
NLessAt(x, y, k) ==
    IF k = 0 THEN FALSE
    ELSE IF x[k] # y[k] THEN x[k] < y[k] ELSE NLessAt(x, y, k - 1)

NLess(a, b) ==
    LET x == NTrim(a)
        y == NTrim(b)
    IN  IF Len(x) # Len(y) THEN Len(x) < Len(y) ELSE NLessAt(x, y, Len(x))

\* a * k + c for one limb k and a carry c.
RECURSIVE NMulSmallC(_, _, _)
NMulSmallC(a, k, c) ==
    IF a = <<>> THEN (IF c = 0 THEN <<>> ELSE <<c>>)
    ELSE LET q == Head(a) * k + c
         IN  <<q % Base>> \o NMulSmallC(Tail(a), k, q \div Base)

RECURSIVE NMul(_, _)
NMul(a, b) ==
    IF b = <<>> THEN <<>>
    ELSE NAdd(NMulSmallC(a, Head(b), 0), <<0>> \o NMul(a, Tail(b)))

\* Quotient and remainder of a by k, for 0 < k <= Base.
RECURSIVE NDivSmall(_, _)
NDivSmall(a, k) ==
    IF a = <<>> THEN [q |-> <<>>, r |-> 0]
    ELSE LET hi  == NDivSmall(Tail(a), k)
             cur == hi.r * Base + Head(a)
         IN  [q |-> <<cur \div k>> \o hi.q, r |-> cur % k]

Zeros(n) == [k \in 1..n |-> 0]

\* a * 2^n
NShl(a, n) ==
    Zeros(n \div LimbBits) \o NMulSmallC(a, Pow2(n % LimbBits), 0)

\* a \div 2^n
NShr(a, n) ==
    LET w == n \div LimbBits
    IN  IF w >= Len(a) THEN <<>>
        ELSE NTrim(NDivSmall(SubSeq(a, w + 1, Len(a)), Pow2(n % LimbBits)).q)

RECURSIVE BitLen(_)
BitLen(x) == IF x = 0 THEN 0 ELSE 1 + BitLen(x \div 2)

NBitLen(a) ==
    LET x == NTrim(a)
    IN  IF x = <<>> THEN 0 ELSE LimbBits * (Len(x) - 1) + BitLen(x[Len(x)])

\* Bit k of a, bit 0 being the lowest.
NBit(a, k) ==
    LET w == k \div LimbBits
    IN  IF w >= Len(a) THEN 0 ELSE (a[w + 1] \div Pow2(k % LimbBits)) % 2

\* Some of the n lowest bits of a is set.
NLowBits(a, n) ==
    LET w == n \div LimbBits
    IN  \/ \E k \in 1..w : k <= Len(a) /\ a[k] # 0
        \/ w < Len(a) /\ a[w + 1] % Pow2(n % LimbBits) # 0

NaN == [nan |-> TRUE, s |-> 1, m |-> Zeros(4), e |-> 0]

DZero == [nan |-> FALSE, s |-> 1, m |-> Zeros(4), e |-> 0]

\* The double s * m * 2^e for a significand m of exactly 53 bits.
Mk(s, m, e) == [nan |-> FALSE, s |-> s, m |-> m \o Zeros(4 - Len(m)), e |-> e]

\* The double nearest to s * mant * 2^e, ties to even; sticky says that the
\* exact value lies above mant * 2^e by less than 2^e.
Round(s, mant, e, sticky) ==
    LET m == NTrim(mant)
        l == NBitLen(m)
    IN  IF l = 0 THEN DZero
        ELSE IF l <= MantBits
        THEN Mk(s, NShl(m, MantBits - l), e - (MantBits - l))
        ELSE LET sh == l - MantBits
                 q  == NShr(m, sh)
                 up == /\ NBit(m, sh - 1) = 1
                       /\ sticky \/ NLowBits(m, sh - 1) \/ q[1] % 2 = 1
                 q1 == IF up THEN NAdd(q, <<1>>) ELSE q
             IN  IF NBitLen(q1) > MantBits
                 THEN Mk(s, NShr(q1, 1), e + sh + 1)
                 ELSE Mk(s, q1, e + sh)

\* The conversion of an integer to double.
DOfInt(n) ==
    Round(IF n < 0 THEN -1 ELSE 1, NOfInt(IF n < 0 THEN -n ELSE n), 0, FALSE)

DIsZero(x) == ~x.nan /\ x.m = Zeros(4)

DNeg(x) == IF x.nan \/ DIsZero(x) THEN x ELSE [x EXCEPT !.s = -x.s]

\* x + y.  An operand 2^55 times smaller than the other is rounded away.
DAdd(x, y) ==
    IF x.nan \/ y.nan THEN NaN
    ELSE IF DIsZero(x) THEN y
    ELSE IF DIsZero(y) THEN x
    ELSE IF x.e - y.e >= MantBits + 2 THEN x
    ELSE IF y.e - x.e >= MantBits + 2 THEN y
    ELSE LET e  == IF x.e < y.e THEN x.e ELSE y.e
             mx == NShl(NTrim(x.m), x.e - e)
             my == NShl(NTrim(y.m), y.e - e)
         IN  IF x.s = y.s THEN Round(x.s, NAdd(mx, my), e, FALSE)
             ELSE IF NLess(mx, my) THEN Round(y.s, NSub(my, mx), e, FALSE)
             ELSE Round(x.s, NSub(mx, my), e, FALSE)

DSub(x, y) == DAdd(x, DNeg(y))

DMul(x, y) ==
    IF x.nan \/ y.nan THEN NaN
    ELSE IF DIsZero(x) \/ DIsZero(y) THEN DZero
    ELSE Round(x.s * y.s, NMul(NTrim(x.m), NTrim(y.m)), x.e + y.e, FALSE)

\* x / k for a double k that is a whole number, 0 < k <= Base.
DDivInt(x, k) ==
    IF x.nan THEN NaN
    ELSE IF DIsZero(x) THEN DZero
    ELSE LET d == NDivSmall(NShl(NTrim(x.m), 4 * LimbBits), k)
         IN  Round(x.s, d.q, x.e - 4 * LimbBits, d.r # 0)

\* x < 0
DNegative(x) == ~x.nan /\ ~DIsZero(x) /\ x.s = -1

\* x == y of C: a NaN equals nothing, itself included.
DEq(x, y) == ~x.nan /\ ~y.nan /\ x = y

\* M_PI, 3.141592653589793 = 884279719003555 / 2^48.
M_PI == Mk(1, <<11544, 4368, 8117, 1608>>, -51)

\* x * M_PI / 180.0
Radians(x) == DDivInt(DMul(x, M_PI), 180)

(***************************************************************************)
(* cgeom.c: cos() and sin() of the C library on the arguments the model    *)
(* reaches, as pairs <<x, cos(x)>> and <<x, sin(x)>>.  Every value is the  *)
(* double nearest to the exact cosine or sine of the double x.             *)
(***************************************************************************)
CosTable ==
  { <<Mk(-1, <<11221, 3567, 11935, 1715>>, -54),
      Mk(1, <<16277, 15357, 15418, 1870>>, -53)>>,
    <<Mk(-1, <<11221, 3567, 11935, 1715>>, -55),
      Mk(1, <<128, 2536, 4035, 2003>>, -53)>>,
    <<DZero,
      Mk(1, <<0, 0, 0, 1024>>, -52)>>,
    <<Mk(1, <<7481, 2378, 13418, 1143>>, -60),
      Mk(1, <<14414, 9600, 16064, 2047>>, -53)>>,
    <<Mk(1, <<15435, 14093, 1506, 1525>>, -60),
      Mk(1, <<2550, 2516, 15816, 2047>>, -53)>>,
    <<Mk(1, <<7481, 2378, 13418, 1143>>, -59),
      Mk(1, <<2509, 5735, 15106, 2047>>, -53)>>,
    <<Mk(1, <<15435, 14093, 1506, 1525>>, -59),
      Mk(1, <<8431, 10379, 14112, 2047>>, -53)>>,
    <<Mk(1, <<11221, 3567, 11935, 1715>>, -59),
      Mk(1, <<11804, 5085, 13509, 2047>>, -53)>>,
    <<Mk(1, <<7481, 2378, 13418, 1143>>, -58),
      Mk(1, <<12170, 8150, 11273, 2047>>, -53)>>,
    <<Mk(1, <<1159, 11165, 12676, 1429>>, -58),
      Mk(1, <<10357, 15627, 8398, 2047>>, -53)>>,
    <<Mk(1, <<15435, 14093, 1506, 1525>>, -58),
      Mk(1, <<4057, 13788, 7298, 2047>>, -53)>>,
    <<Mk(1, <<11221, 3567, 11935, 1715>>, -58),
      Mk(1, <<629, 12029, 4885, 2047>>, -53)>>,
    <<Mk(1, <<7007, 9425, 5979, 1906>>, -58),
      Mk(1, <<2047, 13112, 2188, 2047>>, -53)>>,
    <<Mk(1, <<4900, 12354, 11193, 2001>>, -58),
      Mk(1, <<13636, 14834, 733, 2047>>, -53)>>,
    <<Mk(1, <<7481, 2378, 13418, 1143>>, -57),
      Mk(1, <<1383, 8956, 12327, 2046>>, -53)>>,
    <<Mk(1, <<3267, 8236, 7462, 1334>>, -57),
      Mk(1, <<5792, 4783, 4947, 2046>>, -53)>>,
    <<Mk(1, <<15435, 14093, 1506, 1525>>, -57),
      Mk(1, <<9183, 4686, 12816, 2045>>, -53)>>,
    <<Mk(1, <<11221, 3567, 11935, 1715>>, -57),
      Mk(1, <<9757, 13387, 3166, 2045>>, -53)>>,
    <<Mk(1, <<11221, 3567, 11935, 1715>>, -55),
      Mk(1, <<128, 2536, 4035, 2003>>, -53)>>,
    <<Mk(1, <<11221, 3567, 11935, 1715>>, -54),
      Mk(1, <<16277, 15357, 15418, 1870>>, -53)>> }

SinTable ==
  { <<Mk(-1, <<14430, 9556, 10146, 2010>>, -51),
      Mk(1, <<15308, 6652, 2534, 1448>>, -53)>>,
    <<Mk(-1, <<11544, 4368, 8117, 1608>>, -51),
      Mk(-1, <<7175, 3153, 8803, 1129>>, -105)>>,
    <<Mk(-1, <<8658, 15564, 6087, 1206>>, -51),
      Mk(-1, <<15309, 6652, 2534, 1448>>, -53)>>,
    <<Mk(-1, <<11544, 4368, 8117, 1608>>, -52),
      Mk(-1, <<0, 0, 0, 1024>>, -52)>>,
    <<Mk(-1, <<11544, 4368, 8117, 1608>>, -53),
      Mk(-1, <<15308, 6652, 2534, 1448>>, -53)>>,
    <<Mk(-1, <<11221, 3567, 11935, 1715>>, -54),
      Mk(-1, <<6864, 1048, 16274, 1665>>, -54)>>,
    <<Mk(-1, <<12512, 6771, 13047, 1286>>, -54),
      Mk(-1, <<10575, 7359, 12019, 1265>>, -54)>>,
    <<Mk(-1, <<11221, 3567, 11935, 1715>>, -55),
      Mk(-1, <<6389, 12553, 3482, 1703>>, -55)>>,
    <<Mk(-1, <<11221, 3567, 11935, 1715>>, -56),
      Mk(-1, <<5995, 11505, 9737, 1712>>, -56)>>,
    <<DZero,
      DZero>>,
    <<Mk(1, <<11221, 3567, 11935, 1715>>, -56),
      Mk(1, <<5995, 11505, 9737, 1712>>, -56)>>,
    <<Mk(1, <<11221, 3567, 11935, 1715>>, -55),
      Mk(1, <<6389, 12553, 3482, 1703>>, -55)>>,
    <<Mk(1, <<12512, 6771, 13047, 1286>>, -54),
      Mk(1, <<10575, 7359, 12019, 1265>>, -54)>>,
    <<Mk(1, <<11221, 3567, 11935, 1715>>, -54),
      Mk(1, <<6864, 1048, 16274, 1665>>, -54)>>,
    <<Mk(1, <<11544, 4368, 8117, 1608>>, -53),
      Mk(1, <<15308, 6652, 2534, 1448>>, -53)>>,
    <<Mk(1, <<11544, 4368, 8117, 1608>>, -52),
      Mk(1, <<0, 0, 0, 1024>>, -52)>>,
    <<Mk(1, <<8658, 15564, 6087, 1206>>, -51),
      Mk(1, <<15309, 6652, 2534, 1448>>, -53)>>,
    <<Mk(1, <<11544, 4368, 8117, 1608>>, -51),
      Mk(1, <<7175, 3153, 8803, 1129>>, -105)>>,
    <<Mk(1, <<14430, 9556, 10146, 2010>>, -51),
      Mk(-1, <<15308, 6652, 2534, 1448>>, -53)>> }

Cos(x) == IF x.nan THEN NaN ELSE (CHOOSE t \in CosTable : t[1] = x)[2]

Sin(x) == IF x.nan THEN NaN ELSE (CHOOSE t \in SinTable : t[1] = x)[2]

(***************************************************************************)
(* cgeom.c: haversine_distance.  ArcTable holds line 17 on the values of a *)
(* the model reaches with 0 <= a <= 1, as pairs                            *)
(* <<a, 2 * atan2(sqrt(a), sqrt(1 - a))>> of the C library.                *)
(***************************************************************************)
EarthRadius == 6371000

ArcTable ==
  { <<DZero,
      DZero>>,
    <<Mk(1, <<11874, 10660, 13566, 1039>>, -158),
      Mk(1, <<584, 1751, 14478, 1031>>, -104)>>,
    <<Mk(1, <<11518, 16318, 1516, 1192>>, -158),
      Mk(1, <<298, 4579, 13995, 1104>>, -104)>>,
    <<Mk(1, <<7496, 5673, 15592, 1245>>, -158),
      Mk(1, <<7175, 3153, 8803, 1129>>, -104)>>,
    <<Mk(1, <<12301, 767, 1947, 1432>>, -59),
      Mk(1, <<11220, 3567, 11935, 1715>>, -55)>>,
    <<Mk(1, <<853, 8208, 7720, 1416>>, -57),
      Mk(1, <<11220, 3567, 11935, 1715>>, -54)>>,
    <<Mk(1, <<11616, 1664, 8729, 1564>>, -56),
      Mk(1, <<12512, 6771, 13047, 1286>>, -53)>>,
    <<Mk(1, <<10319, 2287, 3949, 1355>>, -55),
      Mk(1, <<11221, 3567, 11935, 1715>>, -53)>>,
    <<Mk(1, <<1513, 11716, 3108, 1709>>, -54),
      Mk(1, <<5140, 11168, 5044, 1438>>, -52)>>,
    <<Mk(1, <<1516, 11716, 3108, 1709>>, -54),
      Mk(1, <<5142, 11168, 5044, 1438>>, -52)>>,
    <<Mk(1, <<14866, 4667, 13275, 1874>>, -54),
      Mk(1, <<7465, 7168, 13058, 1521>>, -52)>>,
    <<Mk(1, <<14869, 4667, 13275, 1874>>, -54),
      Mk(1, <<7467, 7168, 13058, 1521>>, -52)>>,
    <<Mk(1, <<16330, 7678, 7709, 1959>>, -54),
      Mk(1, <<2207, 15555, 3553, 1564>>, -52)>>,
    <<Mk(1, <<16333, 7678, 7709, 1959>>, -54),
      Mk(1, <<2208, 15555, 3553, 1564>>, -52)>>,
    <<Mk(1, <<16382, 16383, 16383, 2047>>, -54),
      Mk(1, <<11544, 4368, 8117, 1608>>, -52)>>,
    <<Mk(1, <<16383, 16383, 16383, 2047>>, -54),
      Mk(1, <<11544, 4368, 8117, 1608>>, -52)>>,
    <<Mk(1, <<0, 0, 0, 1024>>, -53),
      Mk(1, <<11544, 4368, 8117, 1608>>, -52)>>,
    <<Mk(1, <<1, 0, 0, 1024>>, -53),
      Mk(1, <<11545, 4368, 8117, 1608>>, -52)>>,
    <<Mk(1, <<8218, 4352, 4337, 1068>>, -53),
      Mk(1, <<4496, 9566, 12680, 1652>>, -52)>>,
    <<Mk(1, <<8220, 4352, 4337, 1068>>, -53),
      Mk(1, <<4498, 9566, 12680, 1652>>, -52)>>,
    <<Mk(1, <<757, 5858, 9746, 1110>>, -53),
      Mk(1, <<15621, 1568, 3176, 1695>>, -52)>>,
    <<Mk(1, <<758, 5858, 9746, 1110>>, -53),
      Mk(1, <<15622, 1568, 3176, 1695>>, -52)>>,
    <<Mk(1, <<15624, 10525, 6637, 1193>>, -53),
      Mk(1, <<1560, 13953, 11189, 1778>>, -52)>>,
    <<Mk(1, <<15626, 10525, 6637, 1193>>, -53),
      Mk(1, <<1562, 13953, 11189, 1778>>, -52)>>,
    <<Mk(1, <<1515, 11716, 3108, 1709>>, -53),
      Mk(1, <<12834, 7572, 9229, 1179>>, -51)>>,
    <<Mk(1, <<14932, 14127, 7100, 1852>>, -53),
      Mk(1, <<12512, 6771, 13047, 1286>>, -51)>>,
    <<Mk(1, <<16330, 7678, 7709, 1959>>, -53),
      Mk(1, <<12189, 5970, 481, 1394>>, -51)>>,
    <<Mk(1, <<16332, 7678, 7709, 1959>>, -53),
      Mk(1, <<12191, 5970, 481, 1394>>, -51)>>,
    <<Mk(1, <<64, 9460, 10209, 2025>>, -53),
      Mk(1, <<11868, 5169, 4299, 1501>>, -51)>>,
    <<Mk(1, <<16383, 16383, 16383, 2047>>, -53),
      Mk(1, <<6475, 1472, 8117, 1608>>, -51)>>,
    <<Mk(1, <<0, 0, 0, 1024>>, -52),
      Mk(1, <<11544, 4368, 8117, 1608>>, -51)>> }

\* Line 17: 2 * atan2(sqrt(a), sqrt(1 - a)).  sqrt() of a negative number is
\* NaN, and atan2() and the product hand a NaN on.
Arc(a) ==
    IF a.nan \/ DNegative(a) \/ DNegative(DSub(DOfInt(1), a)) THEN NaN
    ELSE (CHOOSE t \in ArcTable : t[1] = a)[2]

\* Lines 7-19: the distance in metres of two points given in whole degrees.
py_haversine_distance(la1, lo1, la2, lo2) ==
    LET lat1     == DOfInt(la1)
        lon1     == DOfInt(lo1)
        lat2     == DOfInt(la2)
        lon2     == DOfInt(lo2)
        r        == DOfInt(EarthRadius)
        phi1     == Radians(lat1)
        phi2     == Radians(lat2)
        d_phi    == Radians(DSub(lat2, lat1))
        d_lambda == Radians(DSub(lon2, lon1))
        a        == DAdd(DMul(Sin(DDivInt(d_phi, 2)), Sin(DDivInt(d_phi, 2))),
                         DMul(DMul(DMul(Cos(phi1), Cos(phi2)),
                                   Sin(DDivInt(d_lambda, 2))),
                              Sin(DDivInt(d_lambda, 2))))
        c        == Arc(a)
        dist     == DMul(r, c)
    IN  dist

(***************************************************************************)
(* cgeom.c: polygon_area.  The coordinates of an item are whole degrees.   *)
(***************************************************************************)
\* The n of line 30: the fewest items of a ring that is measured.
MinRing == 3

\* fabs()
Fabs(x) == IF x.nan THEN x ELSE [x EXCEPT !.s = 1]

MeterPerDeg == 111320

\* A call that returned v.
Returned(v) == [st |-> "ok", v |-> v]

\* return NULL: the call is rejected with an error.
Rejected(v) == [st |-> "error", v |-> v]

\* Lines 34-44: sum_lat (f = 1) or sum_lon (f = 2) after the first k items.
RECURSIVE SumField(_, _, _)
SumField(seq, f, k) ==
    IF k = 0 THEN DZero
    ELSE DAdd(SumField(seq, f, k - 1), DOfInt(seq[k][f]))

\* Lines 57-69: the loop from item k on, with the locals as they stand.
RECURSIVE Shoelace(_, _, _, _, _, _, _, _)
Shoelace(seq, k, prev_x, prev_y, lat0, lon0, cos_lat0, area) ==
    IF k > Len(seq) THEN area
    ELSE LET x == DMul(DSub(DOfInt(seq[k][2]), lon0), cos_lat0)
             y == DSub(DOfInt(seq[k][1]), lat0)
         IN  Shoelace(seq, k + 1, x, y, lat0, lon0, cos_lat0,
                      DAdd(area, DSub(DMul(prev_x, y), DMul(x, prev_y))))

\* Lines 34-74: the ring has at least 3 items.
AreaOfRing(seq) ==
    LET n == Len(seq)
    IN  IF \E k \in 1..n : ~ParsesAsPair(seq[k])
        THEN Rejected(DZero)
        ELSE LET lat0     == DDivInt(SumField(seq, 1, n), n)
                 lon0     == DDivInt(SumField(seq, 2, n), n)
                 cos_lat0 == Cos(Radians(lat0))
                 prev_x   == DMul(DSub(DOfInt(seq[n][2]), lon0), cos_lat0)
                 prev_y   == DSub(DOfInt(seq[n][1]), lat0)
                 area     == Shoelace(seq, 1, prev_x, prev_y, lat0, lon0,
                                      cos_lat0, DZero)
                 halved   == DDivInt(Fabs(area), 2)
                 meter_per_deg == DOfInt(MeterPerDeg)
                 res      == DMul(DMul(halved, meter_per_deg), meter_per_deg)
             IN  Returned(res)

\* Lines 27-74 with a short ring rejected instead of measured as 0.0.
py_polygon_area_strict(seq) ==
    IF Len(seq) < MinRing THEN Rejected(DZero) ELSE AreaOfRing(seq)

\* Lines 27-74.
py_polygon_area(seq) ==
    IF Len(seq) < MinRing THEN Returned(DZero) ELSE AreaOfRing(seq)



(***************************************************************************)
(* cgeom.c: point_in_polygon.  The epsilon 1e-12 of line 102 is far below  *)
(* the spacing of the coordinates, so a double is kept here as [h, e]: h   *)
(* half degrees plus e times 1e-12 degrees, both integers.  Sums and       *)
(* differences are exact; comparisons are lexicographic, which is exact    *)
(* while the coefficients stay below 10^11.                                *)
(***************************************************************************)
EpsNum(h, e) == [h |-> h, e |-> e]

EZero == EpsNum(0, 0)

\* The literal 1e-12 of line 102.
Epsilon == EpsNum(0, 1)

EAdd(x, y) == EpsNum(x.h + y.h, x.e + y.e)

ESub(x, y) == EpsNum(x.h - y.h, x.e - y.e)

ELess(x, y) == x.h < y.h \/ (x.h = y.h /\ x.e < y.e)

\* A product: the coefficients of (1/2)^2, (1/2) * 1e-12 and (1e-12)^2.
EMul(x, y) == <<x.h * y.h, x.h * y.e + x.e * y.h, x.e * y.e>>

\* The sign of a product or of a difference of products.
Sign3(t) ==
    LET c == IF t[1] # 0 THEN t[1] ELSE IF t[2] # 0 THEN t[2] ELSE t[3]
    IN  IF c > 0 THEN 1 ELSE IF c < 0 THEN -1 ELSE 0

Sub3(s, t) == <<s[1] - t[1], s[2] - t[2], s[3] - t[3]>>

\* Line 100: the edge's longitudes straddle the test longitude.
Straddles(lon1, lon2, lon0) == ELess(lon0, lon1) # ELess(lon0, lon2)

\* Line 102: the denominator lon2 - lon1 + 1e-12.
Denominator(lon1, lon2) == EAdd(ESub(lon2, lon1), Epsilon)

\* Lines 101-103 with "+ lat1" left out of the interpolation.
LatBelowIntersect_nooffset(lat0, lon0, lat1, lon1, lat2, lon2) ==
    LET num == EMul(ESub(lat2, lat1), ESub(lon0, lon1))
        den == Denominator(lon1, lon2)
        s   == Sign3(Sub3(EMul(lat0, den), num))
    IN  IF den = EZero THEN Sign3(num) > 0
        ELSE IF ELess(EZero, den) THEN s < 0 ELSE s > 0

\* Lines 101-103: lat < (lat2 - lat1) * (lon - lon1) / den + lat1, decided
\* exactly as (lat - lat1) * den < num, or > num for a negative den.  For
\* den = 0 the IEEE quotient is +inf, -inf or NaN and only +inf is above lat.
LatBelowIntersect(lat0, lon0, lat1, lon1, lat2, lon2) ==
    LET num == EMul(ESub(lat2, lat1), ESub(lon0, lon1))
        den == Denominator(lon1, lon2)
        s   == Sign3(Sub3(EMul(ESub(lat0, lat1), den), num))
    IN  IF den = EZero THEN Sign3(num) > 0
        ELSE IF ELess(EZero, den) THEN s < 0 ELSE s > 0

\* No division has been evaluated for the edge.
NoCross == [done |-> FALSE, den |-> EZero]

(***************************************************************************)
(* cgeom.c: the calls.                                                     *)
(***************************************************************************)
NoDistance == DZero

NoArea == [st |-> "none", v |-> DZero]

NoAnswer == [st |-> "none", v |-> FALSE]

\* Lines 5-20: haversine_distance((lat1, lon1), (lat2, lon2)).
HaversineCall(lat1, lon1, lat2, lon2) ==
    /\ pc = "idle"
    /\ hArgs' = <<lat1, lon1, lat2, lon2>>
    /\ hRet' = py_haversine_distance(lat1, lon1, lat2, lon2)
    /\ pc' = "hav_done"
    /\ UNCHANGED <<ring, aRet, pt, poly, i, inside, cross, pRet>>

\* Lines 22-75: polygon_area(seq).
PolygonAreaCall(seq) ==
    /\ pc = "idle"
    /\ ring' = seq
    /\ aRet' = py_polygon_area(seq)
    /\ pc' = "area_done"
    /\ UNCHANGED <<hArgs, hRet, pt, poly, i, inside, cross, pRet>>

\* Lines 77-82: point_in_polygon((lat, lon), seq) is entered.
PointInPolygonCall(point, seq) ==
    /\ pc = "idle"
    /\ pt' = point
    /\ poly' = seq
    /\ pc' = "pip_enter"
    /\ UNCHANGED <<hArgs, hRet, ring, aRet, i, inside, cross, pRet>>

\* Lines 83-90: a ring of fewer than 3 items returns False at once.
PipEnter ==
    /\ pc = "pip_enter"
    /\ IF Len(poly) < 3
       THEN /\ pRet' = Returned(FALSE)
            /\ pc' = "pip_done"
            /\ UNCHANGED <<i, inside>>
       ELSE /\ inside' = FALSE
            /\ i' = 0
            /\ pc' = "pip_loop"
            /\ UNCHANGED pRet
    /\ UNCHANGED <<hArgs, hRet, ring, aRet, pt, poly, cross>>

\* Lines 91-106: one iteration of the loop over the edges.
PipEdge ==
    /\ pc = "pip_loop"
    /\ i < Len(poly)
    /\ LET n  == Len(poly)
           p1 == poly[i + 1]
           p2 == poly[((i + 1) % n) + 1]
       IN  IF ~ParsesAsPair(p1) \/ ~ParsesAsPair(p2)
           THEN /\ pRet' = Rejected(FALSE)
                /\ pc' = "pip_done"
                /\ UNCHANGED <<i, inside, cross>>
           ELSE /\ IF Straddles(p1[2], p2[2], pt[2])
                   THEN /\ cross' = [done |-> TRUE,
                                     den |-> Denominator(p1[2], p2[2])]
                        /\ inside' =
                               IF LatBelowIntersect(pt[1], pt[2], p1[1], p1[2],
                                                    p2[1], p2[2])
                               THEN ~inside ELSE inside
                   ELSE /\ cross' = NoCross
                        /\ UNCHANGED inside
                /\ i' = i + 1
                /\ UNCHANGED <<pRet, pc>>
    /\ UNCHANGED <<hArgs, hRet, ring, aRet, pt, poly>>

\* Lines 107-110: the loop is over; inside is returned.
PipReturn ==
    /\ pc = "pip_loop"
    /\ i >= Len(poly)
    /\ pRet' = Returned(inside)
    /\ pc' = "pip_done"
    /\ UNCHANGED <<hArgs, hRet, ring, aRet, pt, poly, i, inside, cross>>

\* No cgeom call is running.
GeomIdle ==
    /\ hArgs = <<0, 0, 0, 0>>
    /\ hRet = NoDistance
    /\ ring = <<>>
    /\ aRet = NoArea
    /\ pt = <<EZero, EZero>>
    /\ poly = <<>>
    /\ i = 0
    /\ inside = FALSE
    /\ cross = NoCross
    /\ pRet = NoAnswer

\* No parse_coords call is running.
ParseIdle ==
    /\ text = <<>>
    /\ p = 1
    /\ lon = Zero
    /\ lat = Zero
    /\ list = <<>>
    /\ start = 1

\* All sequences over S of length at most n.
SeqsUpTo(S, n) == UNION {[1..k -> S] : k \in 0..n}

\* Lines 9-15: the argument is parsed, list is empty, p is at text.
ParseStart(t) ==
    /\ text = t
    /\ p = 1
    /\ lon = Zero
    /\ lat = Zero
    /\ list = <<>>
    /\ start = 1
    /\ pc = "while"

(***************************************************************************)
(* SpecParse: parse_coords on every string over Alphabet up to MaxLen.     *)
(***************************************************************************)
ParseTexts == SeqsUpTo(Alphabet, MaxLen)

InitParse == GeomIdle /\ \E t \in ParseTexts : ParseStart(t)

SpecParse == InitParse /\ [][ParseNext]_vars

(***************************************************************************)
(* SpecWF: parse_coords on well-formed input only: up to MaxTok tokens     *)
(* lon,lat or lon,lat,alt of complete decimal numbers, whitespace between  *)
(* them and possibly around them.                                          *)
(***************************************************************************)
WFFields == {<<"1">>, <<"-", "2">>, <<".", "5">>}

WFAltitudes == {<<"3">>}

WFTokens ==
    {lo \o <<",">> \o la : lo \in WFFields, la \in WFFields}
    \cup {lo \o <<",">> \o la \o <<",">> \o al :
              lo \in WFFields, la \in WFFields, al \in WFAltitudes}

WFSeparators == {<<" ">>, <<"\n", "\t">>}

WFPads == {<<>>, <<" ">>}

RECURSIVE Join(_, _)
Join(toks, sep) ==
    IF toks = <<>> THEN <<>>
    ELSE IF Len(toks) = 1 THEN toks[1]
    ELSE toks[1] \o sep \o Join(Tail(toks), sep)

WFTexts ==
    {lead \o Join(toks, sep) \o trail :
         toks \in SeqsUpTo(WFTokens, MaxTok), sep \in WFSeparators,
         lead \in WFPads, trail \in WFPads}

InitWF == GeomIdle /\ \E t \in WFTexts : ParseStart(t)

SpecWF == InitWF /\ [][ParseNext]_vars

(***************************************************************************)
(* SpecGeom: one call of polygon_area or point_in_polygon on arguments     *)
(* from small sets.                                                        *)
(***************************************************************************)
GridMax == 1    \* polygon_area coordinates are 0 .. GridMax degrees
MaxRing == 3    \* longest sequence given to polygon_area, point_in_polygon

\* Items of a polygon_area ring: pairs, a 1-tuple and a 3-tuple.
AreaItems ==
    {<<la, lo>> : la \in 0..GridMax, lo \in 0..GridMax}
    \cup {<<0>>, <<0, 1, 2>>}

PipLats == {EpsNum(0, 0), EpsNum(2, 0)}

PipLons == {EpsNum(0, 0), EpsNum(0, 1), EpsNum(2, 0)}

\* Items of a point_in_polygon ring: pairs, a 1-tuple and a 3-tuple.
PipItems ==
    {<<la, lo>> : la \in PipLats, lo \in PipLons}
    \cup {<<EZero>>, <<EZero, EZero, EZero>>}

PipPoints ==
    {<<la, lo>> : la \in {EpsNum(0, 0), EpsNum(1, 0)},
                  lo \in {EpsNum(0, 0), EpsNum(0, 1), EpsNum(1, 0)}}

AreaRings == SeqsUpTo(AreaItems, MaxRing)

PipRings == SeqsUpTo(PipItems, MaxRing)

InitGeom == ParseIdle /\ GeomIdle /\ pc = "idle"

GeomNext ==
    \/ /\ pc = "idle"
       /\ \E seq \in AreaRings : PolygonAreaCall(seq)
       /\ UNCHANGED parseVars
    \/ /\ pc = "idle"
       /\ \E point \in PipPoints, seq \in PipRings :
              PointInPolygonCall(point, seq)
       /\ UNCHANGED parseVars
    \/ PipEnter /\ UNCHANGED parseVars
    \/ PipEdge /\ UNCHANGED parseVars
    \/ PipReturn /\ UNCHANGED parseVars

SpecGeom == InitGeom /\ [][GeomNext]_vars

(***************************************************************************)
(* SpecArea: polygon_area on every ring of MinRing well-formed vertices    *)
(* with whole degrees 0 .. AreaGrid.                                       *)
(***************************************************************************)
AreaGrid == 2   \* the coordinates of SpecArea are 0 .. AreaGrid degrees

GridRings == [1..MinRing -> (0..AreaGrid) \X (0..AreaGrid)]

AreaNext ==
    /\ pc = "idle"
    /\ \E seq \in GridRings : PolygonAreaCall(seq)
    /\ UNCHANGED parseVars

SpecArea == InitGeom /\ [][AreaNext]_vars

(***************************************************************************)
(* SpecHav: one call of haversine_distance.  The latitudes are             *)
(* 12 * (-HavGrid .. HavGrid) degrees and the longitudes                   *)
(* 90 * (-HavGrid .. HavGrid + 1) degrees, which reach the antimeridian.   *)
(***************************************************************************)
HavGrid == 1

HavLats == {12 * k : k \in (-HavGrid)..HavGrid}

HavLons == {90 * k : k \in (-HavGrid)..(HavGrid + 1)}

HavNext ==
    /\ pc = "idle"
    /\ \E lat1 \in HavLats, lon1 \in HavLons,
          lat2 \in HavLats, lon2 \in HavLons :
           HaversineCall(lat1, lon1, lat2, lon2)
    /\ UNCHANGED parseVars

SpecHav == InitGeom /\ [][HavNext]_vars

(***************************************************************************)
(* SpecSquare: point_in_polygon on the unit square, for test points on a   *)
(* half-degree grid around it and 1e-12 degrees to either side of the grid.*)
(***************************************************************************)
SquarePad == 1  \* the grid reaches SquarePad half degrees beyond the square

Square ==
    << <<EpsNum(0, 0), EpsNum(0, 0)>>, <<EpsNum(0, 0), EpsNum(2, 0)>>,
       <<EpsNum(2, 0), EpsNum(2, 0)>>, <<EpsNum(2, 0), EpsNum(0, 0)>> >>

SquareCoords == {EpsNum(h, e) : h \in (-SquarePad)..(2 + SquarePad), e \in -1..1}

InitSquare ==
    /\ ParseIdle
    /\ hArgs = <<0, 0, 0, 0>>
    /\ hRet = NoDistance
    /\ ring = <<>>
    /\ aRet = NoArea
    /\ \E la \in SquareCoords, lo \in SquareCoords : pt = <<la, lo>>
    /\ poly = Square
    /\ i = 0
    /\ inside = FALSE
    /\ cross = NoCross
    /\ pRet = NoAnswer
    /\ pc = "pip_enter"

SquareNext ==
    \/ PipEnter /\ UNCHANGED parseVars
    \/ PipEdge /\ UNCHANGED parseVars
    \/ PipReturn /\ UNCHANGED parseVars

SpecSquare == InitSquare /\ [][SquareNext]_vars

(***************************************************************************)
(* What the specification says of parse_coords, read off the input alone:  *)
(* tokens are the maximal runs of non-whitespace characters, and a token's *)
(* fields are its comma-separated substrings.                              *)
(***************************************************************************)
TokenStarts(t) ==
    {s \in 1..Len(t) : ~IsSpace(t[s]) /\ (s = 1 \/ IsSpace(t[s - 1]))}

TokenEnd(t, s) ==
    CHOOSE e \in s..Len(t) :
        /\ \A j \in s..e : ~IsSpace(t[j])
        /\ e = Len(t) \/ IsSpace(t[e + 1])

\* The k-th smallest element of a finite set of integers.
RECURSIVE KthOf(_, _)
KthOf(S, k) ==
    LET m == CHOOSE x \in S : \A y \in S : x <= y
    IN  IF k = 1 THEN m ELSE KthOf(S \ {m}, k - 1)

Tokens(t) ==
    [k \in 1..Cardinality(TokenStarts(t)) |->
        LET s == KthOf(TokenStarts(t), k) IN SubSeq(t, s, TokenEnd(t, s))]

\* The positions of the commas of a token, with 0 before and Len + 1 after.
CommaCuts(tok) == {0, Len(tok) + 1} \cup {j \in 1..Len(tok) : tok[j] = ","}

\* The k-th comma-separated substring of a token; empty when it is missing.
Field(tok, k) ==
    IF k >= Cardinality(CommaCuts(tok)) THEN <<>>
    ELSE SubSeq(tok, KthOf(CommaCuts(tok), k) + 1,
                KthOf(CommaCuts(tok), k + 1) - 1)

\* The longest numeric prefix of a substring, 0.0 when there is none.
NumericPrefix(f) == Strtod(f, 1).val

\* The value of each complete decimal number SpecWF writes.
FieldValue(f) ==
    CASE f = <<"1">> -> [m |-> 1, d |-> 0]
      [] f = <<"-", "2">> -> [m |-> -2, d |-> 0]
      [] f = <<".", "5">> -> [m |-> 5, d |-> 1]
      [] f = <<"3">> -> [m |-> 3, d |-> 0]

(***************************************************************************)
(* C1: parse_coords returns exactly one coordinate per whitespace-         *)
(* separated token of the input, so k tokens give a list of length k.      *)
(* The code does not: strtod skips whitespace, so "1 2" gives one pair.    *)
(***************************************************************************)
C1_OneCoordinatePerToken ==
    pc = "done" => Len(list) = Len(Tokens(text))

(***************************************************************************)
(* C2: on input made only of well-formed tokens lon,lat or lon,lat,alt the *)
(* i-th output is (lat_i, lon_i): the fields swapped, the altitude         *)
(* dropped without shifting any value.                                     *)
(***************************************************************************)
C2_WellFormedSwapped ==
    pc = "done" =>
        LET toks == Tokens(text)
        IN  list = [k \in 1..Len(toks) |->
                       <<FieldValue(Field(toks[k], 2)),
                         FieldValue(Field(toks[k], 1))>>]

C2_Witness ==
    /\ pc = "done"
    /\ Len(list) = 2
    /\ Field(Tokens(text)[1], 3) # <<>>
    /\ list[1] # list[2]
    /\ list[1][1] # list[1][2]

(***************************************************************************)
(* C3: for every token, the output longitude is the longest numeric prefix *)
(* of the token's first comma-separated substring and the output latitude  *)
(* that of its second, 0.0 when the substring is missing or not numeric:   *)
(* each field depends on its own token only.  The code does not: for       *)
(* "1 2" the latitude of the first pair is read from the second token.     *)
(***************************************************************************)
C3_FieldsFromOwnToken ==
    pc = "done" =>
        LET toks == Tokens(text)
        IN  \A k \in 1..Len(toks) :
                k <= Len(list) =>
                    list[k] = <<NumericPrefix(Field(toks[k], 2)),
                                NumericPrefix(Field(toks[k], 1))>>

(***************************************************************************)
(* C10: parse_coords terminates: the read position never moves backwards   *)
(* and never passes the end of the input, every iteration of the outer     *)
(* loop that appends a coordinate leaves it at least one character further *)
(* than the iteration found it, and so there are at most as many           *)
(* coordinates as input characters.                                        *)
(***************************************************************************)
C10_ReadPositionAdvances ==
    [][/\ p' >= p
       /\ p' <= Len(text) + 1
       /\ Len(list') <= Len(text)
       /\ (pc = "skip" => p' > start /\ Len(list') <= p' - 1)]_vars

C10_Witness ==
    /\ pc = "done"
    /\ Len(list) = 2
    /\ p = Len(text) + 1
    /\ list[2] = <<Zero, Zero>>

(***************************************************************************)
(* C4: a ring that holds a malformed coordinate (an item that is not a     *)
(* pair) is rejected with an error by polygon_area and point_in_polygon    *)
(* whatever its length.  The code does not: a ring of fewer than 3 items   *)
(* is answered before any item is looked at.                               *)
(***************************************************************************)
C4_MalformedRejected ==
    /\ (pc = "area_done" /\ \E k \in 1..Len(ring) : ~ParsesAsPair(ring[k]))
           => aRet.st = "error"
    /\ (pc = "pip_done" /\ \E k \in 1..Len(poly) : ~ParsesAsPair(poly[k]))
           => pRet.st = "error"

(***************************************************************************)
(* C5: for a ring of fewer than 3 well-formed coordinates polygon_area     *)
(* returns exactly 0.0 and point_in_polygon returns false, for every test  *)
(* point and without an error.                                             *)
(***************************************************************************)
C5_ShortRingSentinel ==
    /\ (pc = "area_done" /\ Len(ring) < 3
            /\ \A k \in 1..Len(ring) : ParsesAsPair(ring[k]))
           => aRet = Returned(DZero)
    /\ (pc = "pip_done" /\ Len(poly) < 3
            /\ \A k \in 1..Len(poly) : ParsesAsPair(poly[k]))
           => pRet = Returned(FALSE)

C5_Witness ==
    /\ pc = "area_done"
    /\ Len(ring) = 2
    /\ \A k \in 1..Len(ring) : ParsesAsPair(ring[k])
    /\ ring[1] # ring[2]
    /\ aRet.st = "ok"

(***************************************************************************)
(* C6: for a ring of n >= 3 vertices polygon_area returns the same value   *)
(* for the ring, for each cyclic rotation of it and for its reversal.      *)
(* The code does not: the order of the vertices is the order in which the  *)
(* doubles of line 66 are added up, and the rounded sums differ.           *)
(***************************************************************************)
Rotate(seq, k) == SubSeq(seq, k + 1, Len(seq)) \o SubSeq(seq, 1, k)

Reverse(seq) == [k \in 1..Len(seq) |-> seq[Len(seq) + 1 - k]]

C6_AreaRotationReversal ==
    (pc = "area_done" /\ Len(ring) >= MinRing
         /\ \A k \in 1..Len(ring) : ParsesAsPair(ring[k]))
        => /\ aRet.st = "ok"
           /\ \A k \in 1..(Len(ring) - 1) :
                  DEq(py_polygon_area(Rotate(ring, k)).v, aRet.v)
           /\ DEq(py_polygon_area(Reverse(ring)).v, aRet.v)

(***************************************************************************)
(* C7: for the square ring [(0,0),(0,1),(1,1),(1,0)] point_in_polygon      *)
(* returns true for every point strictly inside the square and false for   *)
(* every point strictly outside it.                                        *)
(***************************************************************************)
OneDegree == EpsNum(2, 0)

StrictlyInside(point) ==
    /\ ELess(EZero, point[1]) /\ ELess(point[1], OneDegree)
    /\ ELess(EZero, point[2]) /\ ELess(point[2], OneDegree)

StrictlyOutside(point) ==
    \/ ELess(point[1], EZero) \/ ELess(OneDegree, point[1])
    \/ ELess(point[2], EZero) \/ ELess(OneDegree, point[2])

C7_SquareInsideOutside ==
    (pc = "pip_done" /\ poly = Square) =>
        /\ StrictlyInside(pt) => pRet = Returned(TRUE)
        /\ StrictlyOutside(pt) => pRet = Returned(FALSE)

C7_Witness ==
    /\ pc = "pip_done"
    /\ poly = Square
    /\ pt = <<EpsNum(1, 0), EpsNum(1, 0)>>
    /\ pRet = Returned(TRUE)

(***************************************************************************)
(* C8: haversine_distance(a, b) equals haversine_distance(b, a), and       *)
(* haversine_distance(a, a) is exactly 0.0.  The code does not give equal  *)
(* values for every a and b: for some antipodal points the rounded a of    *)
(* line 15 is above 1, sqrt(1 - a) is NaN in both directions, and a NaN    *)
(* distance equals nothing.                                                *)
(***************************************************************************)
C8_HaversineSymmetric ==
    pc = "hav_done" =>
        /\ DEq(hRet, py_haversine_distance(hArgs[3], hArgs[4],
                                           hArgs[1], hArgs[2]))
        /\ (hArgs[1] = hArgs[3] /\ hArgs[2] = hArgs[4]) => hRet = DZero

(***************************************************************************)
(* C9: in point_in_polygon, whenever the crossing latitude of an edge is   *)
(* computed the denominator p2.lon - p1.lon + 1e-12 is non-zero.  The code *)
(* does not ensure it: for p2.lon - p1.lon = -1e-12 the sum is 0.0.        *)
(***************************************************************************)
C9_DenominatorNonZero ==
    cross.done => cross.den # EZero

====
